---------------------------- MODULE Spec2Model ----------------------------
(***************************************************************************)
(* A model of tiliawrangler.py: the sparse-to-dense grid reconstruction    *)
(* (parse_cell, parse_row, calculate_col_length, parse_sheet) and the      *)
(* report generation of main (index building, foreign-key flattening,      *)
(* output folders and files).                                              *)
(*                                                                         *)
(* The program is single threaded.  A loop of the source is modelled one   *)
(* iteration per action, the program counter pc saying where control is.   *)
(* The input document is read as the code reads it: a part of the tree is  *)
(* drawn (\E) by the action that visits it first and kept for as long as   *)
(* the code can read it again.                                             *)
(*                                                                         *)
(* Input assumptions, from the format: the cells of a column come in       *)
(* strictly ascending row position, the columns of a sheet in strictly     *)
(* ascending ID; a <text> or <value> child, when present, holds characters *)
(* (payloads are sequences of one-character strings).                      *)
(***************************************************************************)
EXTENDS Integers, Sequences, FiniteSets, TLC

\* ------------------------------------------------------------- bounds
\* Greatest row position of a cell.
MaxRow == 4
\* Most columns of one sheet.
MaxCols == 2
\* Most *.tlx files of one batch.
MaxDocs == 2
\* Most records of a Contacts or Publications collection.
MaxRecs == 2
\* Most references of one foreign-key list.
MaxRefs == 2
\* Most samples of a Geochronology element.
MaxSamples == 2

\* ---------------------------------------------------------- constants
SKIP_TILIA_ROWS == {2}
SKIP_TILIA_COLUMNS == {1, 3, 4, 5, 6}
TILIA_START_DATA == <<8, 3>>

\* first_col_length = None, before the first column is measured.
NoLength == -2

\* ------------------------------------------------------------- inputs
\* Column IDs a sheet draws from: skipped ones (1, 3), header-region ones
\* (2, 7) and data-region ones (8, 9).
ColIDs == {1, 2, 3, 7, 8, 9}
\* find() returned None: the cell has no such child.
NoChild == <<"None">>
TextPayloads == {<<"1", "2">>}
ValuePayloads == {<<"1", "2", ".", "0">>, <<"1", "2", ".", "5">>, <<"1", "x">>}

\* ------------------------------------------------------------- values
\* Python values of a result row: str, int, float, None.
None == [t |-> "None"]
StrVal(s) == [t |-> "str", s |-> s]
IntVal(n) == [t |-> "int", n |-> n]
\* The float num/den, den a power of ten, num/den not integral.
FloatVal(num, den) == [t |-> "float", num |-> num, den |-> den]

VARIABLES
  pc,               \* where control is
  previous_row,     \* parse_sheet: ID of the column visited last
  first_col_length, \* parse_sheet: NoLength, or the first column's length
  cols_seen,        \* history: the IDs of the columns visited, in order
  rows_out,         \* history: the column ID of each row written, in order
  csv_row,          \* the row csv_writer.writerow was handed by the last
                    \* step (NoRow if it wrote none): the writer keeps no
                    \* row once written
  tilia_col,        \* parse_row: the column being parsed
  cell_idx,         \* parse_row: index of the next cell of tilia_col
  previous_column,  \* parse_row: row position handled last
  result_row,       \* parse_row: the row built so far
  origin,           \* history: for each element of result_row, its row
                    \* position and where it came from
  tilia_row_cell,   \* the cell read last
  stderr,           \* what the last step printed with eprint
  raised,           \* the exception that ended the run, "" if none
  n_docs,           \* main: how many *.tlx files the input folder holds
  doc_i,            \* main: how many of them the loop has taken
  folders,          \* the output folder of each input file
  contacts,         \* translate_tlx_to_report: the index of Contacts
  publications,     \* translate_tlx_to_report: the index of Publications
  collection,       \* history: the entries extract_tlx_to_indexed_list
                    \* has read of the collection it is indexing
  n_read,           \* elements of the current collection read so far
  out_row           \* the row or lines the last step wrote from a
                    \* foreign-key list (NoOut if none)

sheet_vars == <<previous_row, first_col_length, cols_seen, rows_out, csv_row,
                tilia_col, cell_idx, previous_column, result_row, origin,
                tilia_row_cell>>

report_vars == <<n_docs, doc_i, folders, contacts, publications, collection,
                 n_read, out_row>>

vars == <<pc, sheet_vars, stderr, raised, report_vars>>

NoCell == [row |-> 0, text |-> NoChild, value |-> NoChild]
NoCol == [ID |-> 0, rows |-> <<>>]
NoRow == [ID |-> 0, row |-> <<>>, origin |-> <<>>]
NoOut == [file |-> "", refs |-> <<>>, entries |-> <<>>, joined |-> ""]

\* No document is being reported.
ReportIdle ==
  /\ n_docs = 0
  /\ doc_i = 0
  /\ folders = <<>>
  /\ contacts = <<>>
  /\ publications = <<>>
  /\ collection = <<>>
  /\ n_read = 0
  /\ out_row = NoOut

\* No sheet is being parsed.
SheetIdle ==
  /\ previous_row = 0
  /\ first_col_length = NoLength
  /\ cols_seen = <<>>
  /\ rows_out = <<>>
  /\ csv_row = NoRow
  /\ tilia_col = NoCol
  /\ cell_idx = 0
  /\ previous_column = 0
  /\ result_row = <<>>
  /\ origin = <<>>
  /\ tilia_row_cell = NoCell

\* ------------------------------------------------------------ float()
DigitVal(c) ==
  CASE c = "0" -> 0 [] c = "1" -> 1 [] c = "2" -> 2 [] c = "3" -> 3
    [] c = "4" -> 4 [] c = "5" -> 5 [] c = "6" -> 6 [] c = "7" -> 7
    [] c = "8" -> 8 [] c = "9" -> 9 [] OTHER -> -1

RECURSIVE DigitsValue(_)
DigitsValue(s) ==
  IF s = <<>> THEN 0
  ELSE 10 * DigitsValue(SubSeq(s, 1, Len(s) - 1)) + DigitVal(s[Len(s)])

RECURSIVE Pow10(_)
Pow10(k) == IF k = 0 THEN 1 ELSE 10 * Pow10(k - 1)

\* float(s) for an unsigned decimal literal: digits, at most one point, at
\* least one digit.  Anything else over this alphabet raises ValueError.
FloatParses(s) ==
  /\ \A i \in 1..Len(s) : DigitVal(s[i]) >= 0 \/ s[i] = "."
  /\ Cardinality({i \in 1..Len(s) : s[i] = "."}) <= 1
  /\ \E i \in 1..Len(s) : DigitVal(s[i]) >= 0

\* The parsed number as whole + frac / den.
ParseFloat(s) ==
  LET dots == {i \in 1..Len(s) : s[i] = "."}
      dot == IF dots = {} THEN Len(s) + 1 ELSE CHOOSE i \in dots : TRUE
      after == SubSeq(s, dot + 1, Len(s))
  IN [whole |-> DigitsValue(SubSeq(s, 1, dot - 1)),
      frac |-> DigitsValue(after),
      den |-> Pow10(Len(after))]

\* ---------------------------------------------------------- parse_cell
\* The result of a call: the exception it raised ("" if none), what it
\* printed with eprint ("" if nothing) and the value it returned.
parse_cell_value_first(cell) ==
  IF cell.value # NoChild /\ FloatParses(cell.value)
  THEN [exc |-> "", warn |-> "", val |-> IntVal(ParseFloat(cell.value).whole)]
  ELSE IF cell.text # NoChild
  THEN [exc |-> "", warn |-> "", val |-> StrVal(cell.text)]
  ELSE [exc |-> "", warn |-> "Unknown Cell", val |-> None]

parse_cell(cell) ==
  IF cell.text # NoChild
  THEN [exc |-> "", warn |-> "", val |-> StrVal(cell.text)]
  ELSE IF cell.value # NoChild
  THEN IF ~FloatParses(cell.value)
       THEN [exc |-> "ValueError", warn |-> "", val |-> None]
       ELSE LET f == ParseFloat(cell.value)
            IN IF f.frac = 0
               THEN [exc |-> "", warn |-> "", val |-> IntVal(f.whole)]
               ELSE [exc |-> "", warn |-> "",
                     val |-> FloatVal(f.whole * f.den + f.frac, f.den)]
  ELSE [exc |-> "", warn |-> "Unknown Cell", val |-> None]

\* What kind of cell an element came from.
CellSrc(cell) ==
  IF cell.text # NoChild THEN "text"
  ELSE IF cell.value # NoChild THEN "value" ELSE "empty"

\* ----------------------------------------------------------- parse_row
RowSkipped_none(p) == FALSE

\* previous_column not in SKIP_TILIA_ROWS, negated.
RowSkipped(p) == p \in SKIP_TILIA_ROWS

FillValue_swapped(csv_row_id, p) ==
  IF csv_row_id >= TILIA_START_DATA[2] /\ p >= TILIA_START_DATA[1]
  THEN IntVal(0) ELSE StrVal(<<>>)

\* The value appended for absent row position p of column csv_row_id.
FillValue(csv_row_id, p) ==
  IF csv_row_id >= TILIA_START_DATA[1] /\ p >= TILIA_START_DATA[2]
  THEN IntVal(0) ELSE StrVal(<<>>)

\* Both fill loops: while prev < stop, prev += 1 and append the fill value
\* of position prev unless it is skipped.  acc is [row, origin].
RECURSIVE FillGap(_, _, _, _)
FillGap(acc, prev, stop, csv_row_id) ==
  IF prev >= stop THEN acc
  ELSE LET p == prev + 1
       IN FillGap(IF RowSkipped(p) THEN acc
                  ELSE [row |-> Append(acc.row, FillValue(csv_row_id, p)),
                        origin |-> Append(acc.origin,
                                          [pos |-> p, src |-> "fill"])],
                  p, stop, csv_row_id)

\* ------------------------------------------------ calculate_col_length
RECURSIVE MaxRowId(_, _)
MaxRowId(rows, max_row_id) ==
  IF rows = <<>> THEN max_row_id
  ELSE MaxRowId(Tail(rows),
                IF Head(rows) > max_row_id THEN Head(rows) ELSE max_row_id)

calculate_col_length(rows) == MaxRowId(rows, -1)

\* The row positions of a column, ascending.
RECURSIVE SortedSeq(_)
SortedSeq(S) ==
  IF S = {} THEN <<>>
  ELSE LET m == CHOOSE x \in S : \A y \in S : x <= y
       IN <<m>> \o SortedSeq(S \ {m})

\* --------------------------------------------------------- parse_sheet
ColumnSkipped_none(id) == FALSE

\* current_row not in SKIP_TILIA_COLUMNS, negated.
ColumnSkipped(id) == id \in SKIP_TILIA_COLUMNS

InitSheet ==
  /\ pc = "sheet"
  /\ SheetIdle
  /\ ReportIdle
  /\ stderr = ""
  /\ raised = ""

\* One iteration of parse_sheet's loop up to the call of parse_row: the
\* next column is read, the first one is measured, a skipped one is dropped.
SheetColumn ==
  /\ pc = "sheet"
  /\ Len(cols_seen) < MaxCols
  /\ \E id \in ColIDs, cells \in SUBSET (1..MaxRow) :
       /\ id > previous_row
       /\ first_col_length' =
            IF first_col_length = NoLength
            THEN calculate_col_length(SortedSeq(cells))
            ELSE first_col_length
       /\ previous_row' = id
       /\ cols_seen' = Append(cols_seen, id)
       /\ IF ColumnSkipped(id)
          THEN /\ pc' = "sheet"
               /\ UNCHANGED <<tilia_col, cell_idx>>
          ELSE /\ pc' = "row"
               /\ tilia_col' = [ID |-> id, rows |-> SortedSeq(cells)]
               /\ cell_idx' = 1
  /\ previous_column' = 0
  /\ result_row' = <<>>
  /\ origin' = <<>>
  /\ tilia_row_cell' = NoCell
  /\ stderr' = ""
  /\ csv_row' = NoRow
  /\ UNCHANGED <<rows_out, raised, report_vars>>

\* One iteration of parse_row's loop over the cells: the gap before the
\* cell is filled, then the cell is resolved unless its position is skipped.
RowCell ==
  /\ pc = "row"
  /\ cell_idx <= Len(tilia_col.rows)
  /\ \E text \in TextPayloads \cup {NoChild},
        value \in ValuePayloads \cup {NoChild} :
       LET current_column == tilia_col.rows[cell_idx]
           cell == [row |-> current_column, text |-> text, value |-> value]
           filled == FillGap([row |-> result_row, origin |-> origin],
                             previous_column, current_column - 1,
                             tilia_col.ID)
           r == parse_cell(cell)
       IN /\ tilia_row_cell' = cell
          /\ previous_column' = current_column
          /\ cell_idx' = cell_idx + 1
          /\ IF RowSkipped(current_column)
             THEN /\ result_row' = filled.row
                  /\ origin' = filled.origin
                  /\ stderr' = ""
                  /\ UNCHANGED <<pc, raised>>
             ELSE IF r.exc # ""
             THEN /\ result_row' = filled.row
                  /\ origin' = filled.origin
                  /\ stderr' = ""
                  /\ pc' = "raised"
                  /\ raised' = r.exc
             ELSE /\ result_row' = Append(filled.row, r.val)
                  /\ origin' = Append(filled.origin,
                                      [pos |-> current_column,
                                       src |-> CellSrc(cell)])
                  /\ stderr' = r.warn
                  /\ UNCHANGED <<pc, raised>>
  /\ UNCHANGED <<previous_row, first_col_length, cols_seen, rows_out,
                 csv_row, tilia_col, report_vars>>

\* The end of parse_row (the trailing fill up to first_col_length) and the
\* writerow of its result in parse_sheet.
RowFinish ==
  /\ pc = "row"
  /\ cell_idx > Len(tilia_col.rows)
  /\ LET filled == FillGap([row |-> result_row, origin |-> origin],
                           previous_column, first_col_length, tilia_col.ID)
     IN csv_row' = [ID |-> tilia_col.ID, row |-> filled.row,
                    origin |-> filled.origin]
  /\ rows_out' = Append(rows_out, tilia_col.ID)
  /\ pc' = "sheet"
  /\ tilia_col' = NoCol
  /\ cell_idx' = 0
  /\ previous_column' = 0
  /\ result_row' = <<>>
  /\ origin' = <<>>
  /\ stderr' = ""
  /\ tilia_row_cell' = NoCell
  /\ UNCHANGED <<previous_row, first_col_length, cols_seen, raised,
                 report_vars>>

\* The sheet has no further column: parse_sheet returns.
SheetEnd ==
  /\ pc = "sheet"
  /\ pc' = "done"
  /\ stderr' = ""
  /\ UNCHANGED <<sheet_vars, raised, report_vars>>

NextSheet == SheetColumn \/ RowCell \/ RowFinish \/ SheetEnd

\* translate_tlx_to_csv on one document (crunch mode's work per document).
SpecSheet == InitSheet /\ [][NextSheet]_vars

\* ======================================================== report mode
\* IDs records carry and references name.
IDs == {3, 5}
\* find('Email') returned None.
NoEmail == "None"
ContactRecs ==
  [ID : IDs, ShortContactName : {"J. Doe"}, Email : {NoEmail, "j@x.org"},
   NeotomaContactID : {"7"}]
PublicationRecs == [ID : IDs, NeotomaID : {"N3", "N5"}]

\* The lists of at most n references.
RefLists(n) == UNION {[1..k -> IDs] : k \in 0..n}

\* The files of a report; <folder name>.csv is written "grid.csv".
ReportFiles == {"grid.csv", "site.txt", "collection_unit.txt",
                "geochronology.csv", "lithology.csv", "publications.csv"}
NoFolder == [exists |-> FALSE, files |-> {}]
\* What an earlier run may have left in a folder.
StaleFolder ==
  [exists |-> TRUE,
   files |-> {[name |-> "grid.csv", done |-> FALSE],
              [name |-> "stale.txt", done |-> TRUE]}]

\* open(path, 'w') and the writes up to now: the file exists, not yet whole.
OpenFile(folder, name) ==
  [folder EXCEPT !.files =
     {f \in @ : f.name # name} \cup {[name |-> name, done |-> FALSE]}]

\* Everything was written and the with block closed the file.
CloseFile(folder, name) ==
  [folder EXCEPT !.files =
     {f \in @ : f.name # name} \cup {[name |-> name, done |-> TRUE]}]

\* ------------------------------------------ extract_tlx_to_indexed_list
\* A dict is the sequence of its items in insertion order.
HasKey(d, id) == \E i \in 1..Len(d) : d[i].ID = id
DictGet(d, id) == d[CHOOSE i \in 1..Len(d) : d[i].ID = id]

DictSet_first_wins(d, rec) ==
  IF HasKey(d, rec.ID) THEN d ELSE Append(d, rec)

\* result[index] = entry: a key already there keeps its place.
DictSet(d, rec) ==
  IF HasKey(d, rec.ID)
  THEN [i \in 1..Len(d) |-> IF d[i].ID = rec.ID THEN rec ELSE d[i]]
  ELSE Append(d, rec)

\* --------------------------------------------------- get_author_string
get_author_string(contact) ==
  IF contact.Email = NoEmail
  THEN contact.ShortContactName \o " (Neotoma: "
         \o contact.NeotomaContactID \o ")"
  ELSE contact.ShortContactName \o " (" \o contact.Email
         \o ") (Neotoma: " \o contact.NeotomaContactID \o ")"

\* ", ".join(strings)
RECURSIVE Join(_)
Join(strings) ==
  IF strings = <<>> THEN ""
  ELSE IF Len(strings) = 1 THEN strings[1]
  ELSE strings[1] \o ", " \o Join(Tail(strings))

\* [db[id] for id in refs]: the records, or KeyError at the first id the
\* index does not hold.
Resolves(db, refs) == \A i \in 1..Len(refs) : HasKey(db, refs[i])
Resolved(db, refs) == [i \in 1..Len(refs) |-> DictGet(db, refs[i])]

\* The lines the collectors loop writes.
RECURSIVE CollectorLines(_)
CollectorLines(strings) ==
  IF strings = <<>> THEN ""
  ELSE "Collector: " \o strings[1] \o "\n" \o CollectorLines(Tail(strings))

\* ----------------------------------------------------------------main
\* A run starts with, for each input file, no report folder or one an
\* earlier run left.
InitReport ==
  /\ pc = "main"
  /\ SheetIdle
  /\ stderr = ""
  /\ raised = ""
  /\ n_docs \in 1..MaxDocs
  /\ doc_i = 0
  /\ folders \in [1..n_docs -> {NoFolder, StaleFolder}]
  /\ contacts = <<>>
  /\ publications = <<>>
  /\ collection = <<>>
  /\ n_read = 0
  /\ out_row = NoOut

\* The exception leaves every with block (the open file is closed as it
\* is) and, caught nowhere, ends main.
Abort(exc) ==
  /\ pc' = "aborted"
  /\ raised' = exc

\* main's loop takes the next file: it is parsed, its report folder is
\* removed if there and made anew.  (Entries of the glob that are no files
\* are passed over and are not counted in n_docs.)
MainNextDoc ==
  /\ pc = "main"
  /\ doc_i < n_docs
  /\ doc_i' = doc_i + 1
  /\ folders' = [folders EXCEPT ![doc_i + 1] = [exists |-> TRUE, files |-> {}]]
  /\ pc' = "csv"
  /\ contacts' = <<>>
  /\ publications' = <<>>
  /\ collection' = <<>>
  /\ n_read' = 0
  /\ out_row' = NoOut
  /\ UNCHANGED <<sheet_vars, stderr, raised, n_docs>>

\* The glob is exhausted: main returns.
MainExit ==
  /\ pc = "main"
  /\ doc_i = n_docs
  /\ pc' = "exit"
  /\ out_row' = NoOut
  /\ UNCHANGED <<sheet_vars, stderr, raised, n_docs, doc_i, folders, contacts,
                 publications, collection, n_read>>

\* translate_tlx_to_csv writes the grid: parse_sheet returns, or a cell's
\* value raises ValueError (SpecSheet's "done" and "raised").
TranslateCsv ==
  /\ pc = "csv"
  /\ \E returns \in BOOLEAN :
       IF returns
       THEN /\ folders' = [folders EXCEPT
                             ![doc_i] = CloseFile(@, "grid.csv")]
            /\ pc' = "contacts"
            /\ UNCHANGED raised
       ELSE /\ folders' = [folders EXCEPT
                             ![doc_i] = OpenFile(@, "grid.csv")]
            /\ Abort("ValueError")
  /\ out_row' = NoOut
  /\ UNCHANGED <<sheet_vars, stderr, n_docs, doc_i, contacts, publications,
                 collection, n_read>>

\* One iteration of extract_tlx_to_indexed_list over Contacts.
IndexContact ==
  /\ pc = "contacts"
  /\ n_read < MaxRecs
  /\ \E rec \in ContactRecs :
       /\ contacts' = DictSet(contacts, rec)
       /\ collection' = Append(collection, rec)
  /\ n_read' = n_read + 1
  /\ out_row' = NoOut
  /\ UNCHANGED <<pc, sheet_vars, stderr, raised, n_docs, doc_i, folders,
                 publications>>

IndexContactsDone ==
  /\ pc = "contacts"
  /\ pc' = "publications"
  /\ collection' = <<>>
  /\ n_read' = 0
  /\ out_row' = NoOut
  /\ UNCHANGED <<sheet_vars, stderr, raised, n_docs, doc_i, folders,
                 contacts, publications>>

\* One iteration of extract_tlx_to_indexed_list over Publications.
IndexPublication ==
  /\ pc = "publications"
  /\ n_read < MaxRecs
  /\ \E rec \in PublicationRecs :
       /\ publications' = DictSet(publications, rec)
       /\ collection' = Append(collection, rec)
  /\ n_read' = n_read + 1
  /\ out_row' = NoOut
  /\ UNCHANGED <<pc, sheet_vars, stderr, raised, n_docs, doc_i, folders,
                 contacts>>

IndexPublicationsDone ==
  /\ pc = "publications"
  /\ pc' = "site"
  /\ collection' = <<>>
  /\ n_read' = 0
  /\ out_row' = NoOut
  /\ UNCHANGED <<sheet_vars, stderr, raised, n_docs, doc_i, folders,
                 contacts, publications>>

ExtractSite ==
  /\ pc = "site"
  /\ folders' = [folders EXCEPT ![doc_i] = CloseFile(@, "site.txt")]
  /\ pc' = "collection_unit"
  /\ out_row' = NoOut
  /\ UNCHANGED <<sheet_vars, stderr, raised, n_docs, doc_i, contacts,
                 publications, collection, n_read>>

\* extract_collection_unit_txt: the scalar lines, then a line per collector.
ExtractCollectionUnit ==
  /\ pc = "collection_unit"
  /\ \E collectors \in RefLists(MaxRefs) :
       IF Resolves(contacts, collectors)
       THEN LET strings == [i \in 1..Len(collectors) |->
                              get_author_string(
                                Resolved(contacts, collectors)[i])]
            IN /\ out_row' = [file |-> "collection_unit.txt",
                              refs |-> collectors,
                              entries |-> strings,
                              joined |-> CollectorLines(strings)]
               /\ folders' = [folders EXCEPT
                                ![doc_i] = CloseFile(@, "collection_unit.txt")]
               /\ pc' = "geochronology_open"
               /\ UNCHANGED raised
       ELSE /\ out_row' = NoOut
            /\ folders' = [folders EXCEPT
                             ![doc_i] = OpenFile(@, "collection_unit.txt")]
            /\ Abort("KeyError")
  /\ UNCHANGED <<sheet_vars, stderr, n_docs, doc_i, contacts, publications,
                 collection, n_read>>

\* extract_geochronology_csv up to its loop: the analysis unit is checked
\* (a warning when it is not "Depth") and the header row is written.
GeochronologyOpen ==
  /\ pc = "geochronology_open"
  /\ \E analysis_unit \in {"Depth", "Age"} :
       stderr' = IF analysis_unit # "Depth"
                 THEN "Potentially unsupported analysis unit" ELSE ""
  /\ folders' = [folders EXCEPT ![doc_i] = OpenFile(@, "geochronology.csv")]
  /\ pc' = "geochronology"
  /\ n_read' = 0
  /\ out_row' = NoOut
  /\ UNCHANGED <<sheet_vars, raised, n_docs, doc_i, contacts, publications,
                 collection>>

\* One iteration of the loop over the samples.
GeochronologySample ==
  /\ pc = "geochronology"
  /\ n_read < MaxSamples
  /\ \E refs \in RefLists(MaxRefs) :
       IF Resolves(publications, refs)
       THEN LET publication_elements == Resolved(publications, refs)
                publication_strings ==
                  [i \in 1..Len(refs) |-> publication_elements[i].NeotomaID]
            IN /\ out_row' = [file |-> "geochronology.csv",
                              refs |-> refs,
                              entries |-> publication_strings,
                              joined |-> Join(publication_strings)]
               /\ n_read' = n_read + 1
               /\ UNCHANGED <<pc, raised>>
       ELSE /\ out_row' = NoOut
            /\ Abort("KeyError")
            /\ UNCHANGED n_read
  /\ stderr' = ""
  /\ UNCHANGED <<sheet_vars, n_docs, doc_i, folders, contacts, publications,
                 collection>>

GeochronologyDone ==
  /\ pc = "geochronology"
  /\ folders' = [folders EXCEPT ![doc_i] = CloseFile(@, "geochronology.csv")]
  /\ pc' = "lithology"
  /\ n_read' = 0
  /\ out_row' = NoOut
  /\ stderr' = ""
  /\ UNCHANGED <<sheet_vars, raised, n_docs, doc_i, contacts, publications,
                 collection>>

ExtractLithology ==
  /\ pc = "lithology"
  /\ folders' = [folders EXCEPT ![doc_i] = CloseFile(@, "lithology.csv")]
  /\ pc' = "publications_open"
  /\ out_row' = NoOut
  /\ UNCHANGED <<sheet_vars, stderr, raised, n_docs, doc_i, contacts,
                 publications, collection, n_read>>

\* extract_publications_csv up to its loop: the header row is written.
PublicationsOpen ==
  /\ pc = "publications_open"
  /\ folders' = [folders EXCEPT ![doc_i] = OpenFile(@, "publications.csv")]
  /\ pc' = "publications_csv"
  /\ n_read' = 0
  /\ out_row' = NoOut
  /\ UNCHANGED <<sheet_vars, stderr, raised, n_docs, doc_i, contacts,
                 publications, collection>>

\* One iteration of the loop over publications.values(): the authors of
\* the next publication, in the dict's order, are resolved and joined.
PublicationRow ==
  /\ pc = "publications_csv"
  /\ n_read < Len(publications)
  /\ \E refs \in RefLists(MaxRefs) :
       IF Resolves(contacts, refs)
       THEN LET authors == [i \in 1..Len(refs) |->
                              get_author_string(Resolved(contacts, refs)[i])]
            IN /\ out_row' = [file |-> "publications.csv",
                              refs |-> refs,
                              entries |-> authors,
                              joined |-> Join(authors)]
               /\ n_read' = n_read + 1
               /\ UNCHANGED <<pc, raised>>
       ELSE /\ out_row' = NoOut
            /\ Abort("KeyError")
            /\ UNCHANGED n_read
  /\ UNCHANGED <<sheet_vars, stderr, n_docs, doc_i, folders, contacts,
                 publications, collection>>

\* The loop is over: the file is closed, translate_tlx_to_report returns
\* to main's loop and its indexes are gone.
PublicationsDone ==
  /\ pc = "publications_csv"
  /\ n_read = Len(publications)
  /\ folders' = [folders EXCEPT ![doc_i] = CloseFile(@, "publications.csv")]
  /\ pc' = "main"
  /\ contacts' = <<>>
  /\ publications' = <<>>
  /\ n_read' = 0
  /\ out_row' = NoOut
  /\ UNCHANGED <<sheet_vars, stderr, raised, n_docs, doc_i, collection>>

NextReport ==
  \/ MainNextDoc \/ MainExit \/ TranslateCsv
  \/ IndexContact \/ IndexContactsDone
  \/ IndexPublication \/ IndexPublicationsDone
  \/ ExtractSite \/ ExtractCollectionUnit
  \/ GeochronologyOpen \/ GeochronologySample \/ GeochronologyDone
  \/ ExtractLithology
  \/ PublicationsOpen \/ PublicationRow \/ PublicationsDone

\* main in report mode over a batch of documents.
SpecReport == InitReport /\ [][NextReport]_vars


\* ============================================================ properties
Last(s) == s[Len(s)]

\* The fill elements of a row of column c, by the data origin H3 = (8, 3).
FillsAsStated(c, row, org) ==
  \A i \in 1..Len(row) :
    org[i].src = "fill" =>
      row[i] = IF c >= 8 /\ org[i].pos >= 3 THEN IntVal(0) ELSE StrVal(<<>>)

\* C1: every filled (absent) row position g of a column declared at c, a
\* gap between present cells or a trailing position, holds the integer 0
\* if c >= 8 and g >= 3 and the empty string otherwise.
C1_FillValue ==
  /\ pc \in {"row", "raised"} =>
       FillsAsStated(tilia_col.ID, result_row, origin)
  /\ csv_row # NoRow =>
       FillsAsStated(csv_row.ID, csv_row.row, csv_row.origin)

\* A written row of a data column with a 0 filled between two present
\* cells and, in the same sheet state, nothing else filled there.
C1_Witness ==
  /\ csv_row.ID >= 8
  /\ \E i, j, k \in 1..Len(csv_row.row) :
       /\ i < j /\ j < k
       /\ csv_row.origin[i].src # "fill"
       /\ csv_row.origin[j].src = "fill"
       /\ csv_row.origin[j].pos >= 3
       /\ csv_row.row[j] = IntVal(0)
       /\ csv_row.origin[k].src # "fill"

\* The canonical width: the first column's greatest row position, less the
\* skipped row positions up to it.
CanonicalWidth ==
  Cardinality({p \in 1..first_col_length : p \notin SKIP_TILIA_ROWS})

\* C2: every row parse_sheet emits has the canonical width, a later column
\* longer than the first being truncated to it.
C2_CanonicalWidth ==
  csv_row # NoRow => Len(csv_row.row) = CanonicalWidth

\* The columns whose traversal is over.
ColumnsDone ==
  IF pc \in {"row", "raised"}
  THEN SubSeq(cols_seen, 1, Len(cols_seen) - 1)
  ELSE cols_seen

NotSkippedColumn(id) == id \notin {1, 3, 4, 5, 6}

\* C3: the rows written correspond one to one, in order, with the column
\* positions that are not in the column skip-set, and no row is written
\* for a column in it.
C3_OneRowPerColumn ==
  /\ rows_out = SelectSeq(ColumnsDone, NotSkippedColumn)
  /\ csv_row # NoRow =>
       /\ NotSkippedColumn(csv_row.ID)
       /\ csv_row.ID = Last(rows_out)
       /\ csv_row.ID = Last(cols_seen)

\* A sheet of a skipped and then a kept column, traversed to its end.
C3_Witness ==
  /\ pc = "done"
  /\ Len(cols_seen) = 2
  /\ ~NotSkippedColumn(cols_seen[1])
  /\ rows_out = <<cols_seen[2]>>

\* The index of row position p in a row that holds no skipped position.
CanonicalIndex(p) == p - Cardinality({q \in SKIP_TILIA_ROWS : q < p})

IndicesAsStated(org) ==
  \A i \in 1..Len(org) :
    /\ org[i].pos \notin SKIP_TILIA_ROWS
    /\ i = CanonicalIndex(org[i].pos)

\* C4: no element of a row comes from a row position of the row skip-set,
\* cell or fill, and the element of a kept row position p sits at the same
\* index in every row, whatever cells the column has.
C4_SkipKeepsIndices ==
  /\ IndicesAsStated(origin)
  /\ IndicesAsStated(csv_row.origin)

\* The column has a cell at the skipped position 2, which was read, and
\* the cell at position 3 after it is in the row.
C4_Witness ==
  /\ pc = "row"
  /\ \E k \in 1..Len(tilia_col.rows) :
       tilia_col.rows[k] = 2 /\ k < cell_idx
  /\ \E i \in 1..Len(origin) :
       origin[i].pos = 3 /\ origin[i].src # "fill"

\* The cell read last was resolved and its value appended.
CellResolved ==
  /\ pc = "row"
  /\ tilia_row_cell # NoCell
  /\ tilia_row_cell.row \notin SKIP_TILIA_ROWS

\* C5: a text payload is the result verbatim, whatever the value payload;
\* else a numeric payload gives an integer when it has no fractional part
\* and a float when it has one; else a warning is reported, the result is
\* null and the row is completed and emitted with null at that position.
C5_CellPrecedence ==
  /\ CellResolved =>
       LET cell == tilia_row_cell
           v == Last(result_row)
       IN /\ cell.text # NoChild => v = StrVal(cell.text)
          /\ (cell.text = NoChild /\ cell.value # NoChild) =>
               LET f == ParseFloat(cell.value)
               IN /\ f.frac = 0 => v = IntVal(f.whole)
                  /\ f.frac # 0 =>
                       /\ v.t = "float"
                       /\ v.num * f.den = (f.whole * f.den + f.frac) * v.den
          /\ (cell.text = NoChild /\ cell.value = NoChild) =>
               v = None /\ stderr = "Unknown Cell"
  /\ (tilia_row_cell # NoCell
        /\ tilia_row_cell.text = NoChild
        /\ tilia_row_cell.value = NoChild) => raised = ""
  /\ \A i \in 1..Len(csv_row.row) :
       csv_row.origin[i].src = "empty" => csv_row.row[i] = None

\* A cell with both payloads resolved to its text, in a row that already
\* holds the null of a cell with neither payload.
C5_Witness ==
  /\ CellResolved
  /\ tilia_row_cell.text # NoChild
  /\ tilia_row_cell.value # NoChild
  /\ Last(result_row) = StrVal(tilia_row_cell.text)
  /\ \E i \in 1..Len(result_row) :
       origin[i].src = "empty" /\ result_row[i] = None

\* C9: a numeric payload that does not parse is reported, and the row is
\* completed with null at the cell's position.
C9_UnparseableYieldsNull ==
  (/\ tilia_row_cell # NoCell
   /\ tilia_row_cell.row \notin SKIP_TILIA_ROWS
   /\ tilia_row_cell.text = NoChild
   /\ tilia_row_cell.value # NoChild
   /\ ~FloatParses(tilia_row_cell.value))
  => /\ pc = "row"
     /\ raised = ""
     /\ Last(result_row) = None

\* The record a collection's index is to hold for id: the last of the
\* collection, in document order, that carries it.
LastWith(coll, id) ==
  coll[CHOOSE i \in 1..Len(coll) :
         /\ coll[i].ID = id
         /\ \A j \in (i + 1)..Len(coll) : coll[j].ID # id]

\* The index maps each id of the collection read so far to one record,
\* the last that carries it.
IndexAsStated(db, coll) ==
  /\ \A i, j \in 1..Len(db) : db[i].ID = db[j].ID => i = j
  /\ {db[i].ID : i \in 1..Len(db)} = {coll[i].ID : i \in 1..Len(coll)}
  /\ \A i \in 1..Len(db) : db[i] = LastWith(coll, db[i].ID)

\* The record an index holds for id.
HeldFor(db, id) == CHOOSE r \in {db[i] : i \in 1..Len(db)} : r.ID = id

\* Entries with ", " between them.
RECURSIVE Separated(_)
Separated(es) ==
  IF es = <<>> THEN ""
  ELSE IF Len(es) = 1 THEN es[1]
  ELSE Separated(SubSeq(es, 1, Len(es) - 1)) \o ", " \o Last(es)

\* C6: a foreign-key list is serialized with one entry per reference, in
\* the references' order, each the display string of the record the index
\* holds for the id; the index maps every id of the collection to one
\* record, the last in document order.
C6_ForeignKeyLists ==
  /\ pc = "contacts" => IndexAsStated(contacts, collection)
  /\ pc = "publications" => IndexAsStated(publications, collection)
  /\ out_row # NoOut =>
       /\ Len(out_row.entries) = Len(out_row.refs)
       /\ \A i \in 1..Len(out_row.refs) :
            out_row.entries[i] =
              IF out_row.file = "geochronology.csv"
              THEN HeldFor(publications, out_row.refs[i]).NeotomaID
              ELSE get_author_string(HeldFor(contacts, out_row.refs[i]))
       /\ out_row.file # "collection_unit.txt" =>
            out_row.joined = Separated(out_row.entries)

\* The sample of the specification's example: references 3 and 5, the
\* index holding N3 for 3 and N5 for 5, the field "N3, N5".
C6_Witness ==
  /\ out_row.file = "geochronology.csv"
  /\ out_row.refs = <<3, 5>>
  /\ out_row.joined = "N3, N5"

\* Every artifact of the report is there and whole.
CompleteReport(folder) ==
  /\ folder.exists
  /\ folder.files = {[name |-> f, done |-> TRUE] : f \in ReportFiles}

\* C7: an unresolved foreign-key id is fatal only for its document: every
\* other document of the batch, before or after, gets its complete output.
C7_FailureIsolated ==
  (pc = "aborted" /\ raised = "KeyError") =>
    \A d \in 1..n_docs : d # doc_i => CompleteReport(folders[d])

\* C8: after a fatal condition (the one the claim names, an unresolved
\* foreign-key id) the document's destination holds every artifact,
\* complete, or none.
C8_NoPartialOutput ==
  (pc = "aborted" /\ raised = "KeyError") =>
    \/ folders[doc_i].files = {}
    \/ CompleteReport(folders[doc_i])

\* C10: after a run, no document's output folder holds anything of what
\* it held before the run.
C10_NothingStaleRemains ==
  pc \in {"exit", "aborted"} =>
    \A d \in 1..n_docs :
      \A f \in folders[d].files : f.name # "stale.txt"


=============================================================================
